---- MODULE Spec2Model ----
(***************************************************************************)
(* Model of the OpenAI document analyzer:                                  *)
(*   scripts/text_analysis.py      module-level load_text, ask_questions   *)
(*                                 and the interactive shell main()        *)
(*   scripts/document_analyzer.py  class DocumentAnalyzer                  *)
(*                                                                         *)
(* A Python str is a sequence of one-character strings.  The long literal  *)
(* texts of the program (personas, message prefixes) are written as one    *)
(* symbol each; no input alphabet contains such a symbol.                  *)
(***************************************************************************)
EXTENDS Integers, Sequences, FiniteSets, TLC

----------------------------------------------------------------------------
(* Bounds and input alphabets                                              *)

\* longest prompt drawn as an input
MaxLen == 1
\* most pages of a PDF drawn as an input
MaxPages == 2

TextChars == {"a", "b"}

RECURSIVE SeqsUpTo(_, _)
SeqsUpTo(S, n) ==
    IF n = 0 THEN {<<>>}
    ELSE LET shorter == SeqsUpTo(S, n - 1)
         IN  shorter \cup {Append(s, c) : s \in shorter, c \in S}

\* Prompts given to the completion operations
Prompts == SeqsUpTo(TextChars, MaxLen)

\* Document texts: file contents and texts to analyze
Texts == {<<>>, <<"b", "a">>}

\* Python's None
None == <<"None">>

----------------------------------------------------------------------------
(* str methods used by the program                                         *)

Whitespace == {" ", "\t"}

RECURSIVE lstrip(_)
lstrip(s) ==
    IF s # <<>> /\ Head(s) \in Whitespace THEN lstrip(Tail(s)) ELSE s

RECURSIVE rstrip(_)
rstrip(s) ==
    IF s # <<>> /\ s[Len(s)] \in Whitespace
    THEN rstrip(SubSeq(s, 1, Len(s) - 1)) ELSE s

\* str.strip()
strip(s) == rstrip(lstrip(s))

UpperLetters ==
    <<"A","B","C","D","E","F","G","H","I","J","K","L","M",
      "N","O","P","Q","R","S","T","U","V","W","X","Y","Z">>
LowerLetters ==
    <<"a","b","c","d","e","f","g","h","i","j","k","l","m",
      "n","o","p","q","r","s","t","u","v","w","x","y","z">>

LowerChar(c) ==
    IF \E i \in 1..Len(UpperLetters) : UpperLetters[i] = c
    THEN LowerLetters[CHOOSE i \in 1..Len(UpperLetters) : UpperLetters[i] = c]
    ELSE c

\* str.lower()
lower(s) == [i \in 1..Len(s) |-> LowerChar(s[i])]

DecimalDigits == <<"0","1","2","3","4","5","6","7","8","9">>
IsDecimal(c) == \E i \in 1..Len(DecimalDigits) : DecimalDigits[i] = c
DigitValue(c) == (CHOOSE i \in 1..Len(DecimalDigits) : DecimalDigits[i] = c) - 1

\* Characters str.isdigit() accepts: the decimal digits and digit-like
\* characters such as SUPERSCRIPT TWO, which int() rejects.
SuperscriptTwo == "sup2"
IsDigitChar(c) == IsDecimal(c) \/ c = SuperscriptTwo

\* str.isdigit(): non-empty and every character a digit character
isdigit(s) == s # <<>> /\ \A i \in 1..Len(s) : IsDigitChar(s[i])

\* int(s) for a string of digit characters: the value, or ValueError
IntParses(s) == s # <<>> /\ \A i \in 1..Len(s) : IsDecimal(s[i])
RECURSIVE int(_)
int(s) ==
    IF s = <<>> THEN 0
    ELSE 10 * int(SubSeq(s, 1, Len(s) - 1)) + DigitValue(s[Len(s)])

\* str.rfind(c), 1-based, 0 when absent
rfind(s, c) ==
    IF \E i \in 1..Len(s) : s[i] = c
    THEN CHOOSE i \in 1..Len(s) : s[i] = c /\ \A j \in (i+1)..Len(s) : s[j] # c
    ELSE 0

\* os.path.splitext(p)[1] for a path without directory separators: the part
\* from the last dot on, unless only dots precede that dot.
splitext_ext(p) ==
    LET dot == rfind(p, ".")
    IN  IF dot > 0 /\ \E i \in 1..(dot - 1) : p[i] # "."
        THEN SubSeq(p, dot, Len(p))
        ELSE <<>>

\* pathlib.Path(p).suffix: the part of the name from the last dot on, when
\* that dot is neither the first nor the last character of the name.
Path_suffix(p) ==
    LET dot == rfind(p, ".")
    IN  IF 1 < dot /\ dot < Len(p) THEN SubSeq(p, dot, Len(p)) ELSE <<>>

----------------------------------------------------------------------------
(* The filesystem seen by the loaders                                      *)

TXT == <<".", "t", "x", "t">>
PDF == <<".", "p", "d", "f">>

\* File names given to the loaders
PathNames ==
    { <<"f">> \o TXT,
      <<"f", ".", "T", "X", "T">>,
      <<"f">> \o PDF,
      <<"f", ".", "P", "d", "f">>,
      <<"f", ".", "d", "o", "c">>,
      <<"f", ".", "D", "O", "C">>,
      <<"f">>,
      TXT,
      <<".">> \o PDF }

\* What page.extract_text() does on one page: returns a text or throws
PageFails == <<"extract_text raises">>
PageTexts == {<<>>, <<"a">>, <<"b">>}
PageResults == PageTexts \cup {PageFails}

\* What is at a path: nothing, UTF-8 text, a parseable PDF with its pages, or
\* bytes that are neither valid UTF-8 nor a PDF.
Absent == [kind |-> "absent"]
TextFile(t) == [kind |-> "text", text |-> t]
PdfFile(pages) == [kind |-> "pdf", pages |-> pages]
BinaryFile == [kind |-> "binary"]

Files ==
    {Absent, BinaryFile}
    \cup {TextFile(t) : t \in Texts}
    \cup {PdfFile(ps) : ps \in SeqsUpTo(PageResults, MaxPages)}

\* Results of a call: a returned value or a raised exception
Return(v) == [kind |-> "return", value |-> v, exc |-> "", msg |-> <<>>, cause |-> ""]
Raise(e, m, c) == [kind |-> "raise", value |-> <<>>, exc |-> e, msg |-> m, cause |-> c]

\* A loader's run: its result, how many files it opened and how many pages it
\* asked the PDF library to extract.
Load(r, nopen, nextract) == [result |-> r, opened |-> nopen, extracted |-> nextract]

\* open(filepath, "r", encoding="utf-8").read() / Path.read_text("utf-8")
read_text(file) ==
    IF file.kind = "text" THEN Return(file.text)
    ELSE Raise("UnicodeDecodeError", <<"invalid start byte">>, "")

\* First page whose extraction throws, 0 if none
FirstFailing(pages) ==
    IF \E i \in 1..Len(pages) : pages[i] = PageFails
    THEN CHOOSE i \in 1..Len(pages) :
            pages[i] = PageFails /\ \A j \in 1..(i-1) : pages[j] # PageFails
    ELSE 0

\* ConcatPages that puts a newline after each page
RECURSIVE ConcatPages_newlines(_)
ConcatPages_newlines(pages) ==
    IF pages = <<>> THEN <<>>
    ELSE Head(pages) \o <<"\n">> \o ConcatPages_newlines(Tail(pages))

\* text = ""; for page in pdf_reader.pages: text += page.extract_text()
RECURSIVE ConcatPages(_)
ConcatPages(pages) ==
    IF pages = <<>> THEN <<>>
    ELSE Head(pages) \o ConcatPages(Tail(pages))

\* pypdf.PdfReader(f) followed by the page loop: the text, or the library's
\* exception, with the number of extract_text() calls made.
read_pdf(file) ==
    IF file.kind # "pdf" THEN Load(Raise("PdfReadError", <<"invalid pdf header">>, ""), 1, 0)
    ELSE LET bad == FirstFailing(file.pages)
         IN  IF bad = 0
             THEN Load(Return(ConcatPages(file.pages)), 1, Len(file.pages))
             ELSE Load(Raise("PdfStreamError", <<"stream has ended unexpectedly">>, ""), 1, bad)

----------------------------------------------------------------------------
(* Model identifiers                                                       *)

\* "gpt-4o"
Gpt4o ==
    <<"g","p","t","-","4","o">>
\* "gpt-4o-mini"
Gpt4oMini ==
    <<"g","p","t","-","4","o","-","m","i","n","i">>
\* "gpt-4-turbo"
Gpt4Turbo ==
    <<"g","p","t","-","4","-","t","u","r","b","o">>
\* "gpt-4-turbo-preview"
Gpt4TurboPreview ==
    <<"g","p","t","-","4","-","t","u","r","b","o","-","p","r","e","v","i","e","w">>
\* "gpt-3.5-turbo"
Gpt35Turbo ==
    <<"g","p","t","-","3",".","5","-","t","u","r","b","o">>
\* "gpt-3.5-turbo-16k"
Gpt35Turbo16k ==
    <<"g","p","t","-","3",".","5","-","t","u","r","b","o","-","1","6","k">>

\* AVAILABLE_MODELS of both files (the two lists are equal)
AVAILABLE_MODELS ==
    <<Gpt4o, Gpt4oMini, Gpt4Turbo, Gpt4TurboPreview, Gpt35Turbo, Gpt35Turbo16k>>

\* x in AVAILABLE_MODELS
InAvailableModels(m) == \E i \in 1..Len(AVAILABLE_MODELS) : AVAILABLE_MODELS[i] = m

\* A model identifier the allow-list does not hold
CustomModel ==
    <<"m","y","-","l","l","m">>

\* Values of the OPENAI_MODEL environment variable: unset, empty, an
\* allow-listed name, a name outside the list
EnvModels == {None, <<>>, Gpt35Turbo, CustomModel}

\* os.getenv("OPENAI_MODEL", "gpt-4o")
getenv_model(env) == IF env = None THEN Gpt4o ELSE env

\* The model argument of the completion operations
ModelArgs == {None, Gpt4Turbo, CustomModel}

----------------------------------------------------------------------------
(* Loaders                                                                 *)

Unsupported == <<"Unsupported file extension">>
NotFound == <<"File not found">>
PdfReadFailed == <<"Error reading PDF file">>

\* load_text that looks at the extension before it looks for the file
load_text_extension_first(filepath, file) ==
    LET extension == lower(splitext_ext(filepath))
    IN  IF extension # TXT /\ extension # PDF
        THEN Load(Raise("ValueError", Unsupported, ""), 0, 0)
        ELSE IF file.kind = "absent"
        THEN Load(Raise("FileNotFoundError", NotFound, ""), 0, 0)
        ELSE IF extension = TXT THEN Load(read_text(file), 1, 0)
        ELSE read_pdf(file)

\* text_analysis.load_text(filepath)
load_text(filepath, file) ==
    IF file.kind = "absent"
    THEN Load(Raise("FileNotFoundError", NotFound, ""), 0, 0)
    ELSE LET extension == lower(splitext_ext(filepath))
         IN  IF extension = TXT
             THEN Load(read_text(file), 1, 0)
             ELSE IF extension = PDF
             THEN read_pdf(file)
             ELSE Load(Raise("ValueError", Unsupported, ""), 0, 0)

\* extract_text_from_pdf without the existence check: open() fails inside the
\* try block and the failure is wrapped like any other
extract_text_from_pdf_unchecked(filepath, file) ==
    LET got == IF file.kind = "absent"
               THEN Load(Raise("FileNotFoundError", NotFound, ""), 1, 0)
               ELSE read_pdf(file)
    IN  IF got.result.kind = "raise"
        THEN Load(Raise("ValueError", PdfReadFailed, got.result.exc),
                  got.opened, got.extracted)
        ELSE got

\* DocumentAnalyzer.extract_text_from_pdf(filepath)
extract_text_from_pdf(filepath, file) ==
    IF file.kind = "absent"
    THEN Load(Raise("FileNotFoundError", NotFound, ""), 0, 0)
    ELSE LET got == read_pdf(file)
         IN  IF got.result.kind = "raise"
             THEN Load(Raise("ValueError", PdfReadFailed, got.result.exc),
                       got.opened, got.extracted)
             ELSE got

\* DocumentAnalyzer.load_text(filepath)
DocumentAnalyzer_load_text(filepath, file) ==
    IF file.kind = "absent"
    THEN Load(Raise("FileNotFoundError", NotFound, ""), 0, 0)
    ELSE LET extension == lower(Path_suffix(filepath))
         IN  IF extension = TXT
             THEN Load(read_text(file), 1, 0)
             ELSE IF extension = PDF
             THEN extract_text_from_pdf(filepath, file)
             ELSE Load(Raise("ValueError", Unsupported, ""), 0, 0)

\* isinstance(e, ValueError): UnicodeDecodeError derives from ValueError
IsValueError(exc) == exc \in {"ValueError", "UnicodeDecodeError"}

----------------------------------------------------------------------------
(* Prompt construction                                                     *)

SystemAnalyst == <<"You are a helpful assistant that analyzes text and documents.">>
SystemList ==
    <<"You are a helpful assistant and you give answers in a list. People generally ask about text and books.">>
NowAbout == <<"Now, about this following text, ">>
ColonSpace == <<":", " ">>
DefaultTextPrompt == <<"Analyze this text">>
DefaultDocumentPrompt == <<"Analyze this document">>

Message(role, content) == [role |-> role, content |-> content]

\* The keyword arguments of client.chat.completions.create
Request(model, messages) ==
    [model |-> model, messages |-> messages, temperature |-> "0.7", max_tokens |-> 2000]

\* analyze_text_messages with the prompt left out of the user message
analyze_text_messages_no_prompt(text, prompt) ==
    << Message("system", SystemAnalyst),
       Message("user", text) >>

\* messages of DocumentAnalyzer.analyze_text
analyze_text_messages(text, prompt) ==
    << Message("system", SystemAnalyst),
       Message("user", prompt \o ColonSpace \o text) >>

\* ask_questions_messages with the example pair in the wrong order
ask_questions_messages_swapped(prompt, example_prompt, example_response, text_to_analyze) ==
    << Message("system", SystemList),
       Message("user", example_response),
       Message("assistant", example_prompt),
       Message("user", NowAbout \o prompt \o ColonSpace \o text_to_analyze) >>

\* messages of text_analysis.ask_questions
ask_questions_messages(prompt, example_prompt, example_response, text_to_analyze) ==
    << Message("system", SystemList),
       Message("user", example_prompt),
       Message("assistant", example_response),
       Message("user", NowAbout \o prompt \o ColonSpace \o text_to_analyze) >>

\* messages of DocumentAnalyzer.ask_questions
DocumentAnalyzer_ask_questions_messages(prompt, example_prompt, example_response, text_to_analyze) ==
    << Message("system", SystemList),
       Message("user", example_prompt),
       Message("assistant", example_response),
       Message("user", NowAbout \o prompt \o ColonSpace \o text_to_analyze) >>

\* if model is None: model = <default>
ModelOrDefault(model, default) == IF model = None THEN default ELSE model

----------------------------------------------------------------------------
(* The remote endpoint and the handling of what it answers                 *)

\* Exceptions of the client library, all derived from openai.OpenAIError:
\* authentication, network, quota, unknown model
OpenAIErrors ==
    {"AuthenticationError", "APIConnectionError", "RateLimitError", "NotFoundError"}
IsOpenAIError(exc) == exc \in OpenAIErrors

\* Candidate texts of a response
Candidates == {<<>>, <<"X">>, <<" ", "X", " ">>}

\* What create() does: raises an error of the library, or returns a response
\* with its list of candidates (an empty list is a malformed response)
ApiError(e) == [kind |-> "error", exc |-> e, choices |-> <<>>]
Response(choices) == [kind |-> "response", exc |-> "", choices |-> choices]
NoOutcome == [kind |-> "none", exc |-> "", choices |-> <<>>]
Outcomes ==
    {ApiError(e) : e \in OpenAIErrors}
    \cup {Response(<<>>)}
    \cup {Response(<<c>>) : c \in Candidates}
    \cup {Response(<< <<"X">>, <<"Y">> >>)}

\* str(e)
str(r) == <<r.exc>> \o <<": ">> \o r.msg

\* completion that trims the candidate text
completion_stripped(o) ==
    IF o.kind = "error" THEN Raise(o.exc, <<"remote call failed">>, "")
    ELSE IF o.choices = <<>> THEN Raise("IndexError", <<"list index out of range">>, "")
    ELSE Return(strip(o.choices[1]))

\* The body of the try blocks: create(...) then response.choices[0].message.content
completion(o) ==
    IF o.kind = "error" THEN Raise(o.exc, <<"remote call failed">>, "")
    ELSE IF o.choices = <<>> THEN Raise("IndexError", <<"list index out of range">>, "")
    ELSE Return(o.choices[1])

ErrorAnalyzing == <<"Error analyzing text: ">>
ErrorGenerating == <<"Error generating response: ">>

\* DocumentAnalyzer.analyze_text: except Exception as e: raise Exception(...)
analyze_text_result(o) ==
    LET r == completion(o)
    IN  IF r.kind = "raise"
        THEN Raise("Exception", ErrorAnalyzing \o str(r), r.exc)
        ELSE r

\* DocumentAnalyzer.ask_questions: except Exception as e: return f"Error ..."
DocumentAnalyzer_ask_questions_result(o) ==
    LET r == completion(o)
    IN  IF r.kind = "raise"
        THEN Return(ErrorGenerating \o str(r))
        ELSE r

\* text_analysis.ask_questions: except openai.OpenAIError as e: return f"Error ..."
ask_questions_result(o) ==
    LET r == completion(o)
    IN  IF r.kind = "raise" /\ IsOpenAIError(r.exc)
        THEN Return(ErrorGenerating \o str(r))
        ELSE r

\* SendRequest that issues the request a second time
SendRequest_twice(issued, request) == Append(Append(issued, request), request)

\* One call of client.chat.completions.create: the request joins those the
\* invocation has issued
SendRequest(issued, request) == Append(issued, request)

----------------------------------------------------------------------------
(* State                                                                   *)

VARIABLES
    OPENAI_MODEL,     \* the environment variable, None when unset
    DEFAULT_MODEL,    \* text_analysis.DEFAULT_MODEL
    analyzer,         \* the DocumentAnalyzer instance, NoAnalyzer before __init__
    pc,               \* where main() is; "library" when the functions are called directly
    example_prompt,   \* main(): the three texts loaded at startup
    example_response,
    text_to_analyze,
    current_model,    \* main(): the active model
    line,             \* main(): the last line input() returned
    printed,          \* main(): what the last step printed last
    site,             \* the operation invoked last
    args,             \* its arguments
    loaded,           \* the loader run of the invocation
    sent,             \* the requests the invocation has issued, in order
    inflight,         \* requests issued and not yet answered
    outcome,          \* what the remote endpoint answered
    result,           \* what the invocation returned or raised
    warned            \* the invocation printed the unknown-model warning

vars ==
    << OPENAI_MODEL, DEFAULT_MODEL, analyzer, pc, example_prompt, example_response,
       text_to_analyze, current_model, line, printed, site, args, loaded, sent,
       inflight, outcome, result, warned >>

shellVars ==
    << pc, example_prompt, example_response, text_to_analyze, current_model, line, printed >>

NoAnalyzer == [default_model |-> None, constructed |-> FALSE]
NoResult == [kind |-> "none", value |-> <<>>, exc |-> "", msg |-> <<>>, cause |-> ""]
NoLoad == Load(NoResult, 0, 0)
NoArgs == [none |-> TRUE]

\* Module import: DEFAULT_MODEL = os.getenv("OPENAI_MODEL", "gpt-4o")
InitModule ==
    /\ OPENAI_MODEL \in EnvModels
    /\ DEFAULT_MODEL = getenv_model(OPENAI_MODEL)
    /\ analyzer = NoAnalyzer
    /\ example_prompt = <<>>
    /\ example_response = <<>>
    /\ text_to_analyze = <<>>
    /\ current_model = None
    /\ line = <<>>
    /\ printed = <<>>
    /\ site = ""
    /\ args = NoArgs
    /\ loaded = NoLoad
    /\ sent = <<>>
    /\ inflight = 0
    /\ outcome = NoOutcome
    /\ result = NoResult
    /\ warned = FALSE

\* An invocation that sends nothing
Invoked(s, a, l, r) ==
    /\ site' = s
    /\ args' = a
    /\ loaded' = l
    /\ sent' = <<>>
    /\ inflight' = 0
    /\ outcome' = NoOutcome
    /\ result' = r
    /\ warned' = FALSE

\* An invocation that reaches its create() call
Calling(s, a, l, request, w) ==
    /\ site' = s
    /\ args' = a
    /\ loaded' = l
    /\ sent' = SendRequest(<<>>, request)
    /\ inflight' = Len(sent')
    /\ outcome' = NoOutcome
    /\ result' = NoResult
    /\ warned' = w

\* create() returns or raises, and the invocation ends with r
Answered(o, r) ==
    /\ outcome' = o
    /\ inflight' = inflight - 1
    /\ result' = r
    /\ UNCHANGED << site, args, loaded, sent, warned >>

----------------------------------------------------------------------------
(* The library: DocumentAnalyzer and the functions of text_analysis        *)

Falsy(x) == x \in {None, <<>>}

ApiKeys == {None, <<>>, <<"k">>}
InitModelArgs == {None, <<>>, Gpt4oMini, CustomModel}

\* default_model that falls back to the environment only when model is None
DocumentAnalyzer_default_model_none_only(model, env) ==
    IF model = None THEN getenv_model(env) ELSE model

\* self.default_model = model or os.getenv("OPENAI_MODEL", "gpt-4o")
DocumentAnalyzer_default_model(model, env) ==
    IF Falsy(model) THEN getenv_model(env) ELSE model

\* DocumentAnalyzer.__init__(api_key, model), OPENAI_API_KEY being env_key
DocumentAnalyzer_init(api_key, model, env_key) ==
    LET key == IF api_key = None THEN env_key ELSE api_key
        a == [api_key |-> api_key, model |-> model, env_key |-> env_key]
    IN  /\ pc = "library"
        /\ site = ""
        /\ IF Falsy(key)
           THEN /\ Invoked("DocumentAnalyzer.__init__", a, NoLoad,
                           Raise("ValueError", <<"OpenAI API key not provided">>, ""))
                /\ UNCHANGED analyzer
           ELSE /\ Invoked("DocumentAnalyzer.__init__", a, NoLoad, Return(None))
                /\ analyzer' =
                     [default_model |-> DocumentAnalyzer_default_model(model, OPENAI_MODEL),
                      constructed |-> TRUE]
        /\ UNCHANGED << OPENAI_MODEL, DEFAULT_MODEL, shellVars >>

PathArgs(filepath, file) == [filepath |-> filepath, file |-> file]

\* DocumentAnalyzer.extract_text_from_pdf(filepath)
DocumentAnalyzer_extract_text_from_pdf(filepath, file) ==
    /\ pc = "library"
    /\ site = ""
    /\ analyzer.constructed
    /\ LET l == extract_text_from_pdf(filepath, file)
       IN  Invoked("DocumentAnalyzer.extract_text_from_pdf", PathArgs(filepath, file),
                   l, l.result)
    /\ UNCHANGED << OPENAI_MODEL, DEFAULT_MODEL, analyzer, shellVars >>

\* DocumentAnalyzer.load_text(filepath)
DocumentAnalyzer_load(filepath, file) ==
    /\ pc = "library"
    /\ site = ""
    /\ analyzer.constructed
    /\ LET l == DocumentAnalyzer_load_text(filepath, file)
       IN  Invoked("DocumentAnalyzer.load_text", PathArgs(filepath, file), l, l.result)
    /\ UNCHANGED << OPENAI_MODEL, DEFAULT_MODEL, analyzer, shellVars >>

\* text_analysis.load_text(filepath)
module_load(filepath, file) ==
    /\ pc = "library"
    /\ site = ""
    /\ LET l == load_text(filepath, file)
       IN  Invoked("load_text", PathArgs(filepath, file), l, l.result)
    /\ UNCHANGED << OPENAI_MODEL, DEFAULT_MODEL, analyzer, shellVars >>

\* DocumentAnalyzer.analyze_text(text, prompt, model), up to the create() call
DocumentAnalyzer_analyze_text(text, prompt, model) ==
    /\ pc = "library"
    /\ site = ""
    /\ analyzer.constructed
    /\ Calling("DocumentAnalyzer.analyze_text",
               [text |-> text, prompt |-> prompt, model |-> model],
               NoLoad,
               Request(ModelOrDefault(model, analyzer.default_model),
                       analyze_text_messages(text, prompt)),
               FALSE)
    /\ UNCHANGED << OPENAI_MODEL, DEFAULT_MODEL, analyzer, shellVars >>

\* DocumentAnalyzer.analyze_document(filepath, prompt, model): load_text, then
\* analyze_text up to the create() call
DocumentAnalyzer_analyze_document(filepath, file, prompt, model) ==
    /\ pc = "library"
    /\ site = ""
    /\ analyzer.constructed
    /\ LET l == DocumentAnalyzer_load_text(filepath, file)
           a == [filepath |-> filepath, file |-> file, prompt |-> prompt, model |-> model]
       IN  IF l.result.kind = "raise"
           THEN Invoked("DocumentAnalyzer.analyze_document", a, l, l.result)
           ELSE Calling("DocumentAnalyzer.analyze_document", a, l,
                        Request(ModelOrDefault(model, analyzer.default_model),
                                analyze_text_messages(l.result.value, prompt)),
                        FALSE)
    /\ UNCHANGED << OPENAI_MODEL, DEFAULT_MODEL, analyzer, shellVars >>

QuestionArgs(prompt, ep, er, text, model) ==
    [prompt |-> prompt, example_prompt |-> ep, example_response |-> er,
     text_to_analyze |-> text, model |-> model]

\* DocumentAnalyzer.ask_questions(...), up to the create() call
DocumentAnalyzer_ask_questions(prompt, ep, er, text, model) ==
    /\ pc = "library"
    /\ site = ""
    /\ analyzer.constructed
    /\ Calling("DocumentAnalyzer.ask_questions",
               QuestionArgs(prompt, ep, er, text, model),
               NoLoad,
               Request(ModelOrDefault(model, analyzer.default_model),
                       DocumentAnalyzer_ask_questions_messages(prompt, ep, er, text)),
               FALSE)
    /\ UNCHANGED << OPENAI_MODEL, DEFAULT_MODEL, analyzer, shellVars >>

\* text_analysis.ask_questions(...), up to the create() call: the request and
\* whether the unknown-model warning is printed
ask_questions_request(prompt, ep, er, text, model) ==
    Request(ModelOrDefault(model, DEFAULT_MODEL),
            ask_questions_messages(prompt, ep, er, text))
ask_questions_warns(model) ==
    ~InAvailableModels(ModelOrDefault(model, DEFAULT_MODEL))

module_ask_questions(prompt, ep, er, text, model) ==
    /\ pc = "library"
    /\ site = ""
    /\ Calling("ask_questions",
               QuestionArgs(prompt, ep, er, text, model),
               NoLoad,
               ask_questions_request(prompt, ep, er, text, model),
               ask_questions_warns(model))
    /\ UNCHANGED << OPENAI_MODEL, DEFAULT_MODEL, analyzer, shellVars >>

\* How each call site ends when create() has answered
SiteResult(s, o) ==
    CASE s = "DocumentAnalyzer.analyze_text" -> analyze_text_result(o)
      [] s = "DocumentAnalyzer.analyze_document" -> analyze_text_result(o)
      [] s = "DocumentAnalyzer.ask_questions" -> DocumentAnalyzer_ask_questions_result(o)
      [] s = "ask_questions" -> ask_questions_result(o)

\* The remote endpoint answers the request in flight and the operation ends
RemoteAnswers(o) ==
    /\ pc = "library"
    /\ inflight > 0
    /\ Answered(o, SiteResult(site, o))
    /\ UNCHANGED << OPENAI_MODEL, DEFAULT_MODEL, analyzer, shellVars >>

\* The operation has returned or raised: its frame is gone and the caller may
\* invoke the next one
ReturnToCaller ==
    /\ pc = "library"
    /\ site # ""
    /\ inflight = 0
    /\ site' = ""
    /\ args' = NoArgs
    /\ loaded' = NoLoad
    /\ sent' = <<>>
    /\ outcome' = NoOutcome
    /\ result' = NoResult
    /\ warned' = FALSE
    /\ UNCHANGED << OPENAI_MODEL, DEFAULT_MODEL, analyzer, shellVars, inflight >>

Examples == {<<"a">>, <<"b">>}
TextPrompts == Prompts \cup {DefaultTextPrompt}
DocumentPaths == {<<"f">> \o TXT, <<"f">> \o PDF, <<"f", ".", "d", "o", "c">>}
DocumentModelArgs == {None, CustomModel}

InitLibrary == InitModule /\ pc = "library"

NextLibrary ==
    \/ \E k \in ApiKeys, m \in InitModelArgs, e \in ApiKeys \ {<<>>} :
          DocumentAnalyzer_init(k, m, e)
    \/ \E p \in PathNames, f \in Files : DocumentAnalyzer_extract_text_from_pdf(p, f)
    \/ \E p \in PathNames, f \in Files : DocumentAnalyzer_load(p, f)
    \/ \E p \in PathNames, f \in Files : module_load(p, f)
    \/ \E t \in Texts, p \in TextPrompts, m \in ModelArgs :
          DocumentAnalyzer_analyze_text(t, p, m)
    \/ \E p \in DocumentPaths, f \in Files, m \in DocumentModelArgs :
          DocumentAnalyzer_analyze_document(p, f, DefaultDocumentPrompt, m)
    \/ \E q \in Prompts, ep \in Examples, er \in Examples, t \in Texts, m \in ModelArgs :
          DocumentAnalyzer_ask_questions(q, ep, er, t, m)
    \/ \E q \in Prompts, ep \in Examples, er \in Examples, t \in Texts, m \in ModelArgs :
          module_ask_questions(q, ep, er, t, m)
    \/ \E o \in Outcomes : RemoteAnswers(o)
    \/ ReturnToCaller

SpecLibrary == InitLibrary /\ [][NextLibrary]_vars

----------------------------------------------------------------------------
(* The interactive shell: text_analysis.main()                             *)

Usage == <<"Usage: python text_analysis.py <example_prompt> <example_response> <text_to_analyze>">>
ErrorLoading == <<"Error loading files: ">>
Banner == <<"Text Analysis with OpenAI Models">>
Goodbye == <<"Goodbye!">>
ModelChanged == <<"Model changed to: ">>
InvalidNumber == <<"Invalid model number.">>
InvalidSelection == <<"Invalid model selection.">>
Generating == <<"Generating response...">>
PleaseEnter == <<"Please enter a question or command.">>

Exit == <<"e","x","i","t">>
Model == <<"m","o","d","e","l">>

\* len(sys.argv) values tried
ArgCounts == {1, 3, 4, 5}

\* The files named on the command line: a name and what is at that path
ShellFiles ==
    { << <<"f">> \o TXT, TextFile(<<"a">>) >>,
      << <<"f">> \o PDF, PdfFile(<< <<"a">>, <<"b">> >>) >>,
      << <<"f">> \o TXT, Absent >>,
      << <<"f", ".", "d", "o", "c">>, TextFile(<<"a">>) >>,
      << <<"f">> \o TXT, BinaryFile >>,
      << <<"f">> \o PDF, BinaryFile >> }

\* Lines typed at "What do you want to ask about the text? "
InputLines ==
    { Exit,
      <<"E","X","I","T">>,
      <<" ">> \o Exit \o <<" ">>,
      Model,
      <<"M","o","d","e","l">> \o <<" ">>,
      <<>>,
      <<" ", "\t">>,
      <<"a">>,
      <<" ", "b", " ">>,
      Exit \o <<"s">> }

\* Lines typed at "Enter model number or name: "
ModelChoices ==
    { <<"1">>, <<"6">>, <<" ", "2", " ">>, <<"0", "3">>,
      <<"0">>, <<"7">>, <<"1", "0">>,
      <<SuperscriptTwo>>,
      Gpt4oMini,
      <<" ">> \o Gpt4Turbo \o <<" ">>,
      <<"G","P","T","-","4","O">>,
      CustomModel,
      <<"-", "1">>,
      <<>> }

\* main(): len(sys.argv) != 4
main_usage(argc) ==
    /\ pc = "start"
    /\ argc # 4
    /\ pc' = "exit1"
    /\ printed' = Usage
    /\ Invoked("main", NoArgs, NoLoad, NoResult)
    /\ UNCHANGED << OPENAI_MODEL, DEFAULT_MODEL, analyzer, example_prompt,
                    example_response, text_to_analyze, current_model, line >>

\* The try block of main(): the three load_text calls in order, up to the
\* first that raises
load_three(f1, f2, f3) ==
    LET l1 == load_text(f1[1], f1[2])
        l2 == load_text(f2[1], f2[2])
        l3 == load_text(f3[1], f3[2])
    IN  IF l1.result.kind = "raise" THEN <<l1>>
        ELSE IF l2.result.kind = "raise" THEN <<l1, l2>>
        ELSE <<l1, l2, l3>>

\* main() from the argument check to the first prompt
main_load(f1, f2, f3) ==
    LET loads == load_three(f1, f2, f3)
        last == loads[Len(loads)]
        a == [example_prompt |-> f1, example_response |-> f2, text_to_analyze |-> f3]
    IN  /\ pc = "start"
        /\ IF last.result.kind = "return"
           THEN /\ example_prompt' = loads[1].result.value
                /\ example_response' = loads[2].result.value
                /\ text_to_analyze' = loads[3].result.value
                /\ current_model' = DEFAULT_MODEL
                /\ printed' = Banner
                /\ pc' = "awaiting"
                /\ Invoked("main", a, last, NoResult)
           ELSE IF last.result.exc = "FileNotFoundError" \/ IsValueError(last.result.exc)
           THEN /\ printed' = ErrorLoading \o last.result.msg
                /\ pc' = "exit1"
                /\ Invoked("main", a, last, NoResult)
                /\ UNCHANGED << example_prompt, example_response, text_to_analyze,
                                current_model >>
           ELSE /\ pc' = "crashed"
                /\ Invoked("main", a, last, last.result)
                /\ UNCHANGED << example_prompt, example_response, text_to_analyze,
                                current_model, printed >>
        /\ UNCHANGED << OPENAI_MODEL, DEFAULT_MODEL, analyzer, line >>

\* The if/elif chain of the loop on prompt = input(...).strip()
command(prompt) ==
    IF lower(prompt) = Exit THEN "exit"
    ELSE IF lower(prompt) = Model THEN "model"
    ELSE IF prompt # <<>> THEN "question"
    ELSE "empty"

\* "exit": print Goodbye and break
main_exit(l) ==
    /\ pc = "awaiting"
    /\ command(strip(l)) = "exit"
    /\ line' = l
    /\ printed' = Goodbye
    /\ pc' = "exiting"
    /\ Invoked("main", NoArgs, NoLoad, NoResult)
    /\ UNCHANGED << OPENAI_MODEL, DEFAULT_MODEL, analyzer, example_prompt,
                    example_response, text_to_analyze, current_model >>

\* display_available_models(): one line per model, the default one marked
RECURSIVE display_from(_, _)
display_from(i, default) ==
    IF i > Len(AVAILABLE_MODELS) THEN <<>>
    ELSE <<DecimalDigits[i + 1], ". ">> \o AVAILABLE_MODELS[i]
         \o (IF AVAILABLE_MODELS[i] = default THEN <<" (default)">> ELSE <<>>)
         \o <<"\n">> \o display_from(i + 1, default)
display_available_models(default) == <<"Available models:", "\n">> \o display_from(1, default)

\* "model": list the models and ask for a choice
main_model(l) ==
    /\ pc = "awaiting"
    /\ command(strip(l)) = "model"
    /\ line' = l
    /\ printed' = display_available_models(DEFAULT_MODEL)
    /\ pc' = "displaying"
    /\ Invoked("main", NoArgs, NoLoad, NoResult)
    /\ UNCHANGED << OPENAI_MODEL, DEFAULT_MODEL, analyzer, example_prompt,
                    example_response, text_to_analyze, current_model >>

Selection(model, message, raised) == [model |-> model, printed |-> message, raised |-> raised]

\* select_model that takes the number typed as a 0-based index
select_model_zero_based(current, model_choice) ==
    IF isdigit(model_choice)
    THEN IF ~IntParses(model_choice)
         THEN Selection(current, <<>>,
                        Raise("ValueError", <<"invalid literal for int() with base 10">>, ""))
         ELSE LET idx == int(model_choice)
              IN  IF 0 <= idx /\ idx < Len(AVAILABLE_MODELS)
                  THEN Selection(AVAILABLE_MODELS[idx + 1],
                                 ModelChanged \o AVAILABLE_MODELS[idx + 1], NoResult)
                  ELSE Selection(current, InvalidNumber, NoResult)
    ELSE IF InAvailableModels(model_choice)
    THEN Selection(model_choice, ModelChanged \o model_choice, NoResult)
    ELSE Selection(current, InvalidSelection, NoResult)

\* select_model that accepts any name typed as the active model
select_model_any_name(current, model_choice) ==
    IF isdigit(model_choice)
    THEN IF ~IntParses(model_choice)
         THEN Selection(current, <<>>,
                        Raise("ValueError", <<"invalid literal for int() with base 10">>, ""))
         ELSE LET idx == int(model_choice) - 1
              IN  IF 0 <= idx /\ idx < Len(AVAILABLE_MODELS)
                  THEN Selection(AVAILABLE_MODELS[idx + 1],
                                 ModelChanged \o AVAILABLE_MODELS[idx + 1], NoResult)
                  ELSE Selection(current, InvalidNumber, NoResult)
    ELSE Selection(model_choice, ModelChanged \o model_choice, NoResult)

\* The handling of model_choice = input(...).strip(): the active model
\* afterwards, what is printed, and the exception int() raises if any
select_model(current, model_choice) ==
    IF isdigit(model_choice)
    THEN IF ~IntParses(model_choice)
         THEN Selection(current, <<>>,
                        Raise("ValueError", <<"invalid literal for int() with base 10">>, ""))
         ELSE LET idx == int(model_choice) - 1
              IN  IF 0 <= idx /\ idx < Len(AVAILABLE_MODELS)
                  THEN Selection(AVAILABLE_MODELS[idx + 1],
                                 ModelChanged \o AVAILABLE_MODELS[idx + 1], NoResult)
                  ELSE Selection(current, InvalidNumber, NoResult)
    ELSE IF InAvailableModels(model_choice)
    THEN Selection(model_choice, ModelChanged \o model_choice, NoResult)
    ELSE Selection(current, InvalidSelection, NoResult)

\* The second input() of the "model" branch and what follows it
main_choose(c) ==
    LET sel == select_model(current_model, strip(c))
    IN  /\ pc = "displaying"
        /\ line' = c
        /\ current_model' = sel.model
        /\ IF sel.raised.kind = "raise"
           THEN pc' = "crashed" /\ UNCHANGED printed
           ELSE pc' = "awaiting" /\ printed' = sel.printed
        /\ Invoked("main", NoArgs, NoLoad, sel.raised)
        /\ UNCHANGED << OPENAI_MODEL, DEFAULT_MODEL, analyzer, example_prompt,
                        example_response, text_to_analyze >>

\* A question: ask_questions(prompt, ..., current_model) up to its create() call
main_ask(l) ==
    /\ pc = "awaiting"
    /\ command(strip(l)) = "question"
    /\ line' = l
    /\ printed' = Generating
    /\ pc' = "asking"
    /\ Calling("ask_questions",
               QuestionArgs(strip(l), example_prompt, example_response, text_to_analyze,
                            current_model),
               NoLoad,
               ask_questions_request(strip(l), example_prompt, example_response,
                                     text_to_analyze, current_model),
               ask_questions_warns(current_model))
    /\ UNCHANGED << OPENAI_MODEL, DEFAULT_MODEL, analyzer, example_prompt,
                    example_response, text_to_analyze, current_model >>

\* create() answers: ask_questions returns and main() prints the answer, or
\* the exception ask_questions lets through ends main()
main_answer(o) ==
    LET r == ask_questions_result(o)
    IN  /\ pc = "asking"
        /\ inflight > 0
        /\ Answered(o, r)
        /\ IF r.kind = "return"
           THEN pc' = "awaiting" /\ printed' = <<"Answer:", "\n">> \o r.value
           ELSE pc' = "crashed" /\ UNCHANGED printed
        /\ UNCHANGED << OPENAI_MODEL, DEFAULT_MODEL, analyzer, example_prompt,
                        example_response, text_to_analyze, current_model, line >>

\* An empty line: print the hint and prompt again
main_empty(l) ==
    /\ pc = "awaiting"
    /\ command(strip(l)) = "empty"
    /\ line' = l
    /\ printed' = PleaseEnter
    /\ pc' = "awaiting"
    /\ Invoked("main", NoArgs, NoLoad, NoResult)
    /\ UNCHANGED << OPENAI_MODEL, DEFAULT_MODEL, analyzer, example_prompt,
                    example_response, text_to_analyze, current_model >>

InitShell == InitModule /\ pc = "start"

NextShell ==
    \/ \E n \in ArgCounts : main_usage(n)
    \/ \E f1 \in ShellFiles, f2 \in ShellFiles, f3 \in ShellFiles : main_load(f1, f2, f3)
    \/ \E l \in InputLines : main_exit(l)
    \/ \E l \in InputLines : main_model(l)
    \/ \E c \in ModelChoices : main_choose(c)
    \/ \E l \in InputLines : main_ask(l)
    \/ \E o \in Outcomes : main_answer(o)
    \/ \E l \in InputLines : main_empty(l)

SpecShell == InitShell /\ [][NextShell]_vars

----------------------------------------------------------------------------
(* Properties                                                              *)

Roles(messages) == [i \in 1..Len(messages) |-> messages[i].role]

Contains(s, sub) ==
    \E i \in 0..(Len(s) - Len(sub)) : SubSeq(s, i + 1, i + Len(sub)) = sub

HasPrefix(s, prefix) ==
    Len(s) >= Len(prefix) /\ SubSeq(s, 1, Len(prefix)) = prefix

FewShotSites == {"ask_questions", "DocumentAnalyzer.ask_questions"}
PlainSites == {"DocumentAnalyzer.analyze_text", "DocumentAnalyzer.analyze_document"}
CompletionSites == FewShotSites \cup PlainSites
LoaderSites ==
    {"load_text", "DocumentAnalyzer.load_text", "DocumentAnalyzer.analyze_document"}

\* The remote call failed: the client raised, or the response has no candidate
Failed(o) == o.kind = "error" \/ (o.kind = "response" /\ o.choices = <<>>)

\* C1: every request of the few-shot operation, function or method, carries
\* exactly the four messages system, user, assistant, user: the second is the
\* example prompt, the third the example response, and the last reads
\* "Now, about this following text, " + prompt + ": " + text.
C1_FewShotMessages ==
    site \in FewShotSites =>
        /\ sent # <<>>
        /\ \A i \in 1..Len(sent) :
              LET ms == sent[i].messages
              IN  /\ Roles(ms) = <<"system", "user", "assistant", "user">>
                  /\ ms[2].content = args.example_prompt
                  /\ ms[3].content = args.example_response
                  /\ ms[4].content =
                        <<"Now, about this following text, ">> \o args.prompt
                        \o <<":", " ">> \o args.text_to_analyze

\* C1 witness: the function has sent a request for a non-empty prompt and text
\* with two different examples
C1_Witness ==
    /\ site = "ask_questions"
    /\ Len(sent) = 1
    /\ args.prompt # <<>>
    /\ args.text_to_analyze # <<>>
    /\ args.example_prompt # args.example_response

\* The text a plain analysis is about: the argument, or what load_text returned
PlainText ==
    IF site = "DocumentAnalyzer.analyze_document" THEN loaded.result.value ELSE args.text

\* C2: every request of a plain analysis carries exactly two messages, system
\* then user, and the user content is prompt + ": " + text, so it contains the
\* prompt and the text.
C2_PlainMessages ==
    (site \in PlainSites /\ sent # <<>>) =>
        \A i \in 1..Len(sent) :
            LET ms == sent[i].messages
            IN  /\ Roles(ms) = <<"system", "user">>
                /\ ms[2].content = args.prompt \o <<":", " ">> \o PlainText
                /\ Contains(ms[2].content, args.prompt)
                /\ Contains(ms[2].content, PlainText)

\* C2 witness: analyze_document has loaded a non-empty PDF text and sent it
C2_Witness ==
    /\ site = "DocumentAnalyzer.analyze_document"
    /\ Len(sent) = 1
    /\ args.file.kind = "pdf"
    /\ loaded.result.value = <<"a", "b">>

\* The model-selection step as the claim words it, on the text c
SelectionAsClaimed(c) ==
    IF IntParses(c)
    THEN IF 1 <= int(c) /\ int(c) <= Len(AVAILABLE_MODELS)
         THEN current_model' = AVAILABLE_MODELS[int(c)]
         ELSE current_model' = current_model /\ printed' = InvalidNumber
    ELSE IF InAvailableModels(c)
    THEN current_model' = c
    ELSE current_model' = current_model

\* C3 as stated: the line entered, taken as typed, selects by valid 1-based
\* index or by a name exactly equal to an allow-listed one; an out-of-range
\* index changes nothing and prints the warning; anything else changes nothing.
C3_SelectionOfTypedLine ==
    [][pc = "displaying" => SelectionAsClaimed(line')]_vars

\* C3 amended: the same, of the line entered with its surrounding whitespace
\* removed.
C3_SelectionOfStrippedLine ==
    [][pc = "displaying" => SelectionAsClaimed(strip(line'))]_vars

\* C3 witness: " 2 " has been entered and the second model is active
C3_Witness ==
    /\ pc = "awaiting"
    /\ line = <<" ", "2", " ">>
    /\ current_model = Gpt4oMini
    /\ printed = ModelChanged \o Gpt4oMini

\* How the loop takes a line: compared after strip() and lower()
LineKind(l) ==
    IF lower(strip(l)) = Exit THEN "exit"
    ELSE IF strip(l) = <<>> THEN "empty"
    ELSE IF lower(strip(l)) = Model THEN "model"
    ELSE "question"

\* C4: in the loop, "exit" ends the shell and nothing is read afterwards; an
\* empty line prompts again, the model and the document unchanged and no
\* request sent; any other line that is not "model" sends one request with the
\* document loaded at startup and the active model, and the shell then awaits
\* input again.
C4_ShellLoop ==
    [][ /\ pc # "exiting"
        /\ pc = "awaiting" =>
              /\ LineKind(line') = "exit" => pc' = "exiting"
              /\ LineKind(line') = "empty" =>
                    /\ pc' = "awaiting"
                    /\ current_model' = current_model
                    /\ text_to_analyze' = text_to_analyze
                    /\ sent' = <<>>
              /\ LineKind(line') = "question" =>
                    /\ pc' = "asking"
                    /\ Len(sent') = 1
                    /\ sent'[1].model = current_model
                    /\ sent'[1].messages[4].content =
                          NowAbout \o strip(line') \o ColonSpace \o text_to_analyze
        /\ pc = "asking" =>
              /\ pc' = "awaiting"
              /\ current_model' = current_model
              /\ text_to_analyze' = text_to_analyze
      ]_vars

\* C5: when the remote call made for a question fails, the shell prints the
\* error and awaits input again.
C5_ShellSurvivesFailure ==
    [][(pc = "asking" /\ Failed(outcome')) =>
            /\ pc' = "awaiting"
            /\ Contains(printed', ErrorGenerating)]_vars

\* C6: at every completion call site a failed remote call ends either in the
\* generic exception wrapping the failure or in a returned string that starts
\* with the error marker; the underlying exception never escapes.
C6_FailuresAreCaught ==
    (site \in CompletionSites /\ Failed(outcome)) =>
        \/ /\ result.kind = "raise"
           /\ result.exc = "Exception"
           /\ HasPrefix(result.msg, ErrorAnalyzing)
        \/ /\ result.kind = "return"
           /\ HasPrefix(result.value, ErrorGenerating)

\* C7: an invocation of a completion operation issues exactly one request,
\* also once the remote call has failed, and never has more than one in flight.
C7_ExactlyOneRequest ==
    /\ inflight <= 1
    /\ site \in FewShotSites \cup {"DocumentAnalyzer.analyze_text"} => Len(sent) = 1
    /\ outcome.kind # "none" => (Len(sent) = 1 /\ inflight = 0)

\* C7 witness: the remote call of ask_questions has failed and one request
\* was issued
C7_Witness ==
    /\ site = "ask_questions"
    /\ outcome.kind = "error"
    /\ Len(sent) = 1
    /\ inflight = 0

\* C8: when the remote endpoint answers with a first candidate X, the
\* operation returns X itself.
C8_ReturnsFirstCandidate ==
    (site \in CompletionSites /\ outcome.kind = "response" /\ outcome.choices # <<>>) =>
        /\ result.kind = "return"
        /\ result.value = outcome.choices[1]

\* C8 witness: analyze_document has returned a candidate that begins and ends
\* with a space
C8_Witness ==
    /\ site = "DocumentAnalyzer.analyze_document"
    /\ outcome = Response(<< <<" ", "X", " ">> >>)
    /\ result.value = <<" ", "X", " ">>

\* The extension a loader sees: os.path.splitext in the function, Path.suffix
\* in the class, lower-cased
ExtensionSeen == 
    IF site = "load_text" THEN lower(splitext_ext(args.filepath))
    ELSE lower(Path_suffix(args.filepath))

SignalsUnsupported ==
    result.kind = "raise" /\ result.exc = "ValueError" /\ result.msg = Unsupported
SignalsNotFound ==
    result.kind = "raise" /\ result.exc = "FileNotFoundError"

\* C9 as stated: a path whose extension is neither .txt nor .pdf is refused as
\* unsupported whether or not the file exists.
C9_UnsupportedAlways ==
    (site \in LoaderSites /\ ExtensionSeen \notin {TXT, PDF}) => SignalsUnsupported

\* C9 amended: such a path is refused as unsupported when the file exists,
\* whatever it holds, without being opened; when it does not exist the loader
\* signals not-found.
C9_UnsupportedWhenPresent ==
    (site \in LoaderSites /\ ExtensionSeen \notin {TXT, PDF}) =>
        /\ loaded.opened = 0
        /\ sent = <<>>
        /\ IF args.file.kind = "absent" THEN SignalsNotFound ELSE SignalsUnsupported

\* C9 witness: load_text has refused an existing f.DOC
C9_Witness ==
    /\ site = "load_text"
    /\ args.filepath = <<"f", ".", "D", "O", "C">>
    /\ args.file.kind = "text"
    /\ SignalsUnsupported

\* C10: a path that does not exist makes both load_text implementations and
\* extract_text_from_pdf signal FileNotFoundError, no file opened and no page
\* extracted.
C10_NotFound ==
    (site \in LoaderSites \cup {"DocumentAnalyzer.extract_text_from_pdf"}
     /\ args.file.kind = "absent") =>
        /\ SignalsNotFound
        /\ loaded.opened = 0
        /\ loaded.extracted = 0
        /\ sent = <<>>

\* C10 witness: extract_text_from_pdf was given a missing f.pdf
C10_Witness ==
    /\ site = "DocumentAnalyzer.extract_text_from_pdf"
    /\ args.filepath = <<"f">> \o PDF
    /\ args.file.kind = "absent"
    /\ SignalsNotFound

\* What the read of an existing file raises in the loader invoked, "" when it
\* reads: the text read for .txt, the PDF parse and page loop for .pdf (and for
\* any name given to extract_text_from_pdf)
ReadFailure ==
    IF site = "DocumentAnalyzer.extract_text_from_pdf" \/ ExtensionSeen = PDF
    THEN read_pdf(args.file).result.exc
    ELSE read_text(args.file).exc

\* C11: when the read or the page extraction of an existing .txt or .pdf file
\* throws, each loader raises a read-failure that wraps the cause; the
\* underlying exception itself does not propagate.
C11_ReadFailureWrapped ==
    (/\ site \in {"load_text", "DocumentAnalyzer.load_text",
                  "DocumentAnalyzer.extract_text_from_pdf"}
     /\ args.file.kind # "absent"
     /\ (site = "DocumentAnalyzer.extract_text_from_pdf" \/ ExtensionSeen \in {TXT, PDF})
     /\ ReadFailure # "") =>
        /\ result.kind = "raise"
        /\ result.exc # ReadFailure
        /\ result.cause = ReadFailure

\* P1 + P2 + ... + Pn, built from the last page backwards
RECURSIVE PagesInOrder(_)
PagesInOrder(pages) ==
    IF pages = <<>> THEN <<>>
    ELSE PagesInOrder(SubSeq(pages, 1, Len(pages) - 1)) \o pages[Len(pages)]

\* The loader invoked reads its file as a PDF
LoadsPdf ==
    \/ site = "DocumentAnalyzer.extract_text_from_pdf"
    \/ site \in LoaderSites /\ ExtensionSeen = PDF

\* C12: a PDF whose n >= 0 pages extract to P1 .. Pn loads as P1 + ... + Pn, in
\* page order and with nothing between the pages; one extraction per page.
C12_PagesConcatenated ==
    (/\ LoadsPdf
     /\ args.file.kind = "pdf"
     /\ FirstFailing(args.file.pages) = 0) =>
        /\ loaded.result = Return(PagesInOrder(args.file.pages))
        /\ loaded.extracted = Len(args.file.pages)

\* C12 witness: load_text has read a PDF of the two pages "b" and "a"
C12_Witness ==
    /\ site = "load_text"
    /\ args.file = PdfFile(<< <<"b">>, <<"a">> >>)
    /\ result = Return(<<"b", "a">>)

\* The model a completion operation uses: its argument, or the default of the
\* module or of the analyzer
EffectiveModel ==
    IF args.model # None THEN args.model
    ELSE IF site = "ask_questions" THEN DEFAULT_MODEL
    ELSE analyzer.default_model

\* C13: a completion operation invoked with a model outside AVAILABLE_MODELS
\* prints a warning and still sends its request with that very model.
C13_UnknownModelWarned ==
    (/\ site \in FewShotSites \cup {"DocumentAnalyzer.analyze_text"}
     /\ ~InAvailableModels(EffectiveModel)) =>
        /\ warned
        /\ Len(sent) = 1
        /\ sent[1].model = EffectiveModel

\* The constructor has just returned
Constructed == site = "DocumentAnalyzer.__init__" /\ result.kind = "return"

\* The value the constructor is given for the default model: the model
\* argument unless it is None or empty, else OPENAI_MODEL unless it is unset,
\* else "gpt-4o"
ModelGiven ==
    IF args.model # None /\ args.model # <<>> THEN args.model
    ELSE IF OPENAI_MODEL # None THEN OPENAI_MODEL
    ELSE <<"g", "p", "t", "-", "4", "o">>

\* C14 as stated: once a DocumentAnalyzer is constructed its default_model is
\* in AVAILABLE_MODELS, whatever the model argument and OPENAI_MODEL are.
C14_DefaultModelAvailable ==
    analyzer.constructed => InAvailableModels(analyzer.default_model)

\* C14 amended: once constructed, default_model is the value given (argument,
\* else environment, else "gpt-4o"), and it is in AVAILABLE_MODELS exactly when
\* that value is.
C14_DefaultModelAsGiven ==
    Constructed =>
        /\ analyzer.constructed
        /\ analyzer.default_model = ModelGiven
        /\ (args.model = None /\ OPENAI_MODEL \in {None, Gpt35Turbo}) =>
              InAvailableModels(analyzer.default_model)

\* C14 witness: constructed as in the tests, without a model argument and with
\* OPENAI_MODEL = "gpt-3.5-turbo"
C14_Witness ==
    /\ Constructed
    /\ args.model = None
    /\ OPENAI_MODEL = Gpt35Turbo
    /\ analyzer.default_model = Gpt35Turbo

\* The shell has loaded its files and is in its loop
InLoop == pc \in {"awaiting", "displaying", "asking"}

\* C15: in the shell the active model is DEFAULT_MODEL from startup until a
\* selection succeeds; it changes only in a successful selection, and then to
\* a member of AVAILABLE_MODELS, so it is always DEFAULT_MODEL or allow-listed;
\* the request of each question carries the active model.
C15_ActiveModel ==
    [][/\ (pc = "start" /\ pc' = "awaiting") => current_model' = DEFAULT_MODEL
       /\ (pc # "start" /\ current_model' # current_model) =>
             /\ pc = "displaying"
             /\ pc' = "awaiting"
             /\ InAvailableModels(current_model')
             /\ printed' = ModelChanged \o current_model'
       /\ (pc' \in {"awaiting", "displaying", "asking", "exiting"}) =>
             \/ current_model' = DEFAULT_MODEL
             \/ InAvailableModels(current_model')
       /\ (pc = "awaiting" /\ pc' = "asking") =>
             /\ Len(sent') = 1
             /\ sent'[1].model = current_model
             /\ current_model' = current_model]_vars

\* C15 witness: a question asked after a model outside the list was refused
\* and "gpt-4o-mini" was selected, with a DEFAULT_MODEL outside the list
C15_Witness ==
    /\ pc = "asking"
    /\ DEFAULT_MODEL = CustomModel
    /\ current_model = Gpt4oMini
    /\ Len(sent) = 1
    /\ sent[1].model = Gpt4oMini

====
